---- MODULE Spec2Model ----
\* A model of the random_user client: the request builder (generator.rs), the
\* content-type dispatch of parse_response, the gender overwrite of request and
\* the wire codes of Nationality (types.rs).
\*
\* Strings are sequences of one-character strings, so that push, pop and the
\* comma join are computed as the code computes them.
EXTENDS Integers, Sequences, FiniteSets, TLC

\* ---------------------------------------------------------------- bounds
\* filter parameters one builder chain adds before its terminal call
MaxParams == 2
\* records in one upstream batch
MaxResults == 2
\* length of the list handed to nationalities
MaxNats == 2

\* ---------------------------------------------------------------- Nationality
\* the variants in declaration order (the order the derived decoder tries them)
NationalityOrder ==
    << "Australian", "Brazilian", "Canadian", "Swiss", "German", "Danish",
       "Spanish", "Finnish", "French", "British", "Irish", "Indian", "Iranian",
       "Mexican", "Dutch", "Norwegian", "NewZealander", "Serbian", "Turkish",
       "Ukrainian", "American" >>

Nationality == { NationalityOrder[i] : i \in 1..Len(NationalityOrder) }

\* a slip in one rename attribute: Iranian given Indian's code
WireCodeClash(nat) ==
    CASE nat = "Australian"   -> <<"A", "U">>
      [] nat = "Brazilian"    -> <<"B", "R">>
      [] nat = "Canadian"     -> <<"C", "A">>
      [] nat = "Swiss"        -> <<"C", "H">>
      [] nat = "German"       -> <<"D", "E">>
      [] nat = "Danish"       -> <<"D", "K">>
      [] nat = "Spanish"      -> <<"E", "S">>
      [] nat = "Finnish"      -> <<"F", "I">>
      [] nat = "French"       -> <<"F", "R">>
      [] nat = "British"      -> <<"G", "B">>
      [] nat = "Irish"        -> <<"I", "E">>
      [] nat = "Indian"       -> <<"I", "N">>
      [] nat = "Iranian"      -> <<"I", "N">>
      [] nat = "Mexican"      -> <<"M", "X">>
      [] nat = "Dutch"        -> <<"N", "L">>
      [] nat = "Norwegian"    -> <<"N", "O">>
      [] nat = "NewZealander" -> <<"N", "Z">>
      [] nat = "Serbian"      -> <<"R", "S">>
      [] nat = "Turkish"      -> <<"T", "R">>
      [] nat = "Ukrainian"    -> <<"U", "A">>
      [] nat = "American"     -> <<"U", "S">>

\* serde_json::to_value(nat).as_str(): the variant's serde rename
WireCode(nat) ==
    CASE nat = "Australian"   -> <<"A", "U">>
      [] nat = "Brazilian"    -> <<"B", "R">>
      [] nat = "Canadian"     -> <<"C", "A">>
      [] nat = "Swiss"        -> <<"C", "H">>
      [] nat = "German"       -> <<"D", "E">>
      [] nat = "Danish"       -> <<"D", "K">>
      [] nat = "Spanish"      -> <<"E", "S">>
      [] nat = "Finnish"      -> <<"F", "I">>
      [] nat = "French"       -> <<"F", "R">>
      [] nat = "British"      -> <<"G", "B">>
      [] nat = "Irish"        -> <<"I", "E">>
      [] nat = "Indian"       -> <<"I", "N">>
      [] nat = "Iranian"      -> <<"I", "R">>
      [] nat = "Mexican"      -> <<"M", "X">>
      [] nat = "Dutch"        -> <<"N", "L">>
      [] nat = "Norwegian"    -> <<"N", "O">>
      [] nat = "NewZealander" -> <<"N", "Z">>
      [] nat = "Serbian"      -> <<"R", "S">>
      [] nat = "Turkish"      -> <<"T", "R">>
      [] nat = "Ukrainian"    -> <<"U", "A">>
      [] nat = "American"     -> <<"U", "S">>

\* the result of decoding a string that names no variant
NoVariant == "NoVariant"

\* the derived Deserialize of Nationality: the first variant, in declaration
\* order, whose rename equals the string; an error when there is none
FromWire(w) ==
    LET hits == { i \in 1..Len(NationalityOrder) : WireCode(NationalityOrder[i]) = w }
    IN  IF hits = {} THEN NoVariant
        ELSE NationalityOrder[CHOOSE i \in hits : \A j \in hits : i <= j]

\* the letters the wire codes are written in, and every two-letter string
Letters == { WireCode(n)[1] : n \in Nationality } \cup { WireCode(n)[2] : n \in Nationality }
WireStrings == { <<a, b>> : a \in Letters, b \in Letters }

\* ---------------------------------------------------------------- strings
\* String::push
Push(s, c) == Append(s, c)

\* String::pop: removes the last character, and does nothing to an empty string
Pop(s) == IF s = <<>> THEN s ELSE SubSeq(s, 1, Len(s) - 1)

Digit(d) ==
    CASE d = 0 -> "0" [] d = 1 -> "1" [] d = 2 -> "2" [] d = 3 -> "3" [] d = 4 -> "4"
      [] d = 5 -> "5" [] d = 6 -> "6" [] d = 7 -> "7" [] d = 8 -> "8" [] d = 9 -> "9"

\* the decimal text of a usize, as the query serializer writes it
RECURSIVE UsizeToString(_)
UsizeToString(n) == IF n < 10 THEN <<Digit(n)>> ELSE UsizeToString(n \div 10) \o <<Digit(n % 10)>>

\* ---------------------------------------------------------------- inputs
\* Option::None of the builder's gender
None == "None"
GenderArgs == { "female", "male" }
NatArgs == { "Australian" }
NatListArgs == { <<>>, <<"Brazilian", "American">> }
SeedArgs == { <<"a", "b", "c">> }
PasswordArgs == { <<"u", "p", "p", "e", "r", ",", "8">> }
CountArgs == { 2 }

\* ---------------------------------------------------------------- builder
\* UserGeneratorBuilder::new
New(req, gender) == [req |-> req, gender |-> gender]

\* RequestBuilder::query with one pair: the pair is appended to the query
Query(req, name, value) == Append(req, <<name, value>>)

\* a builder that carries the gender filter into the query as well
genderSent(self, g) == New(Query(self.req, "gender", <<g>>), g)

gender(self, g) == New(self.req, g)

\* a builder operation that forgets the gender filter it was given
nationalityDropsGender(self, nat) == New(Query(self.req, "nat", WireCode(nat)), None)

nationality(self, nat) == New(Query(self.req, "nat", WireCode(nat)), self.gender)

\* the loop of nationalities: each code, then a comma
RECURSIVE JoinLoop(_, _)
JoinLoop(nats, rest) ==
    IF rest = <<>> THEN nats
    ELSE JoinLoop(Push(nats \o WireCode(Head(rest)), ","), Tail(rest))

\* the join without the pop that removes the last comma
nationalitiesNoPop(self, list) ==
    New(Query(self.req, "nat", JoinLoop(<<>>, list)), self.gender)

\* a join that adds no parameter for an empty list
nationalitiesSkipsEmpty(self, list) ==
    IF list = <<>> THEN self
    ELSE New(Query(self.req, "nat", Pop(JoinLoop(<<>>, list))), self.gender)

nationalities(self, list) ==
    LET nats == Pop(JoinLoop(<<>>, list))
    IN  New(Query(self.req, "nat", nats), self.gender)

seed(self, s) == New(Query(self.req, "seed", s), self.gender)

password(self, charset) ==
    New(Query(self.req, "password", charset), self.gender)

count(self, n) ==
    New(Query(self.req, "results", UsizeToString(n)), self.gender)

\* UserGenerator::get
get == New(<<>>, None)

\* ---------------------------------------------------------------- responses
\* RandomUserInfo
NoInfo == [seed |-> "", results |-> 0, page |-> 0, version |-> ""]
InfoArgs ==
    { [seed |-> "abc", results |-> 1, page |-> 1, version |-> "1.4"],
      [seed |-> "xyz", results |-> 2, page |-> 3, version |-> "1.4"] }

\* one record of the upstream's results array, before decoding: gender and
\* email as sent, nat as a wire string (the last one names no variant)
JsonUsers ==
    { [gender |-> "female", email |-> "a@example.com", nat |-> <<"A", "U">>],
      [gender |-> "male",   email |-> "b@example.com", nat |-> <<"U", "S">>],
      [gender |-> "male",   email |-> "c@example.com", nat |-> <<"X", "X">>] }

\* RandomUser, reduced to the field the reconciler writes, one field it leaves
\* alone and the decoded nationality
NoUser == [gender |-> None, email |-> "", nationality |-> NoVariant]

SeqsUpTo(S, n) == UNION { [1..k -> S] : k \in 0..n }

\* a body text: raw text that is no JSON, a JSON scalar, a JSON array of a
\* results array and an info object, or a JSON object with the keys `keys`
NoError == [type |-> "absent", s |-> ""]
BodyText(kind, text, keys, error, results, info) ==
    [kind |-> kind, text |-> text, keys |-> keys, error |-> error,
     results |-> results, info |-> info]
Raw(text) == BodyText("raw", text, {}, NoError, <<>>, NoInfo)
Object(keys, error, results, info) == BodyText("object", "", keys, error, results, info)

ErrorMessage == "Error: problem"

Bodies ==
    { Raw(ErrorMessage),
      BodyText("scalar", "5", {}, NoError, <<>>, NoInfo),
      Object({}, NoError, <<>>, NoInfo),
      Object({"error"}, [type |-> "string", s |-> ErrorMessage], <<>>, NoInfo),
      Object({"error"}, [type |-> "number", s |-> "5"], <<>>, NoInfo),
      Object({"other"}, NoError, <<>>, NoInfo) }
    \cup { Object({"error", "info"}, [type |-> "string", s |-> ErrorMessage], <<>>, i)
           : i \in InfoArgs }
    \cup { Object({"info"}, NoError, <<>>, i) : i \in InfoArgs }
    \cup { Object({"results"}, NoError, <<u>>, NoInfo) : u \in JsonUsers }
    \cup { Object({"results", "info"}, NoError, us, i)
           : us \in SeqsUpTo(JsonUsers, MaxResults), i \in InfoArgs }
    \cup { Object({"results", "info", "other"}, NoError, <<u>>, i)
           : u \in JsonUsers, i \in InfoArgs }
    \cup { BodyText("array", "", {}, NoError, <<u>>, i) : u \in JsonUsers, i \in InfoArgs }

\* the content-type header: absent, not visible ASCII (to_str fails), or a
\* string, kept as the sequence of its pieces
NoHeader == [present |-> FALSE, readable |-> FALSE, value |-> <<>>]
OpaqueHeader == [present |-> TRUE, readable |-> FALSE, value |-> <<>>]
Header(value) == [present |-> TRUE, readable |-> TRUE, value |-> value]
ContentTypes ==
    { NoHeader, OpaqueHeader,
      Header(<<"text/plain">>),
      Header(<<"application/json", "; charset=utf-8">>),
      Header(<<"application/json", ", ", "text/plain">>),
      Header(<<"text/html">>) }

\* str::contains, on the pieces of the header value
Contains(ct, piece) == \E i \in 1..Len(ct) : ct[i] = piece

\* what send() gives back: no response at all (the call failed), or the headers
\* and a body that text() reads in full (bodyOk) or fails to read
NoResponse == [arrived |-> FALSE, ct |-> NoHeader, bodyOk |-> FALSE, body |-> Raw("")]
Responses ==
    { NoResponse }
    \cup { [arrived |-> TRUE, ct |-> c, bodyOk |-> FALSE, body |-> Raw("")] : c \in ContentTypes }
    \cup { [arrived |-> TRUE, ct |-> c, bodyOk |-> TRUE, body |-> b]
           : c \in ContentTypes, b \in Bodies }

\* ---------------------------------------------------------------- outcomes
\* a Result of the crate, or the value parse_response hands to request:
\* kind is Error | Result (RandomUserResponse), Ok | OkVec | OkOne (what a
\* terminal call returns), Api | BadFormat | Reqwest (RandomUserError),
\* Panic (the call did not return), or Unset
Outcome(kind, msg, results, info, user) ==
    [kind |-> kind, msg |-> msg, results |-> results, info |-> info, user |-> user]
Unset == Outcome("Unset", Raw(""), <<>>, NoInfo, NoUser)
Err(kind) == Outcome(kind, Raw(""), <<>>, NoInfo, NoUser)
Api(msg) == Outcome("Api", msg, <<>>, NoInfo, NoUser)

\* the derived Deserialize of RandomUser: every field as sent, nat decoded
DecodeUser(u) == [gender |-> u.gender, email |-> u.email, nationality |-> FromWire(u.nat)]
DecodeUsers(us) == [i \in 1..Len(us) |-> DecodeUser(us[i])]
UsersDecode(us) == \A i \in 1..Len(us) : FromWire(us[i].nat) # NoVariant

\* a decoder that takes the error key wherever it appears
FromStrErrorFirst(text) ==
    IF text.kind = "object" /\ "error" \in text.keys /\ text.error.type = "string"
    THEN Outcome("Error", Raw(text.error.s), <<>>, NoInfo, NoUser)
    ELSE IF text.kind = "object" /\ {"results", "info"} \subseteq text.keys
            /\ UsersDecode(text.results)
    THEN Outcome("Result", Raw(""), DecodeUsers(text.results), text.info, NoUser)
    ELSE Err("BadFormat")

\* serde_json::from_str::<RandomUserResponse>, its error mapped to BadFormat:
\* first the tagged variant (an object with the single key `error` and a string
\* value), then the untagged RandomUserResult (an object with `results` and
\* `info`, other keys ignored, or an array of the two in field order)
FromStr(text) ==
    IF text.kind = "object" /\ text.keys = {"error"} /\ text.error.type = "string"
    THEN Outcome("Error", Raw(text.error.s), <<>>, NoInfo, NoUser)
    ELSE IF /\ \/ text.kind = "object" /\ {"results", "info"} \subseteq text.keys
               \/ text.kind = "array"
            /\ UsersDecode(text.results)
    THEN Outcome("Result", Raw(""), DecodeUsers(text.results), text.info, NoUser)
    ELSE Err("BadFormat")

\* a dispatch that looks for application/json first
ParseResponseJsonFirst(response) ==
    IF ~response.ct.present \/ ~response.ct.readable THEN Err("BadFormat")
    ELSE IF ~response.bodyOk THEN Err("Reqwest")
    ELSE IF Contains(response.ct.value, "application/json") THEN FromStr(response.body)
    ELSE IF Contains(response.ct.value, "text/plain")
    THEN Outcome("Error", response.body, <<>>, NoInfo, NoUser)
    ELSE Err("BadFormat")

\* a dispatch that tries JSON on every declared content type
ParseResponseAnyJson(response) ==
    IF ~response.ct.present \/ ~response.ct.readable THEN Err("BadFormat")
    ELSE IF ~response.bodyOk THEN Err("Reqwest")
    ELSE IF Contains(response.ct.value, "text/plain")
    THEN Outcome("Error", response.body, <<>>, NoInfo, NoUser)
    ELSE FromStr(response.body)

parse_response(response) ==
    IF ~response.ct.present THEN Err("BadFormat")
    ELSE IF ~response.ct.readable THEN Err("BadFormat")
    ELSE IF ~response.bodyOk THEN Err("Reqwest")
    ELSE IF Contains(response.ct.value, "text/plain")
    THEN Outcome("Error", response.body, <<>>, NoInfo, NoUser)
    ELSE IF Contains(response.ct.value, "application/json") THEN FromStr(response.body)
    ELSE Err("BadFormat")

\* the values Gender::random_gender may return
RandomGenders == GenderArgs

\* a reconciler that drops the records the filter does not match
ReconcileFilters(results, filter, random) ==
    LET kept == SelectSeq(results, LAMBDA u : filter = None \/ u.gender = filter)
    IN  [i \in 1..Len(kept) |->
            [kept[i] EXCEPT !.gender = IF filter # None THEN filter ELSE random[i]]]

\* the map of request: each record's gender overwritten
Reconcile(results, filter, random) ==
    [i \in 1..Len(results) |->
        [results[i] EXCEPT !.gender = IF filter # None THEN filter ELSE random[i]]]

\* request, from the value send() gave back: the parsed response matched, the
\* records of a Result reconciled with the builder's gender
request(self, response, random) ==
    IF ~response.arrived THEN Err("Reqwest")
    ELSE LET rsp0 == parse_response(response)
         IN  IF rsp0.kind = "Error" THEN Api(rsp0.msg)
             ELSE IF rsp0.kind = "Result"
             THEN Outcome("Ok", Raw(""), Reconcile(rsp0.results, self.gender, random),
                          rsp0.info, NoUser)
             ELSE rsp0

fetch_with_info(self, response, random) == request(self, response, random)

\* fetch: the records of the result, the batch info dropped
fetch(self, response, random) ==
    LET r == request(self, response, random)
    IN  IF r.kind = "Ok" THEN Outcome("OkVec", Raw(""), r.results, NoInfo, NoUser) ELSE r

\* fetch_one: Vec::remove(0) of what fetch returned, which panics on an empty Vec
fetch_one(self, response, random) ==
    LET r == fetch(self, response, random)
    IN  IF r.kind # "OkVec" THEN r
        ELSE IF r.results = <<>> THEN Err("Panic")
        ELSE Outcome("OkOne", Raw(""), <<>>, NoInfo, Head(r.results))

\* ---------------------------------------------------------------- state
VARIABLES
    pc,          \* "idle" | "building" | "awaiting" (request sent) | "done"
    builder,     \* the UserGeneratorBuilder of the chain: [req, gender]
    op,          \* the terminal operation awaited
    response,    \* api_rsp, what send() gave back
    rsp,         \* the value of parse_response inside request
    result,      \* what the terminal operation returned
    lastGender,  \* the argument of the chain's last gender call, None if none
    called,      \* the last operation called and its argument
    codec        \* a Nationality on its way through Serialize and Deserialize

vars == <<pc, builder, op, response, rsp, result, lastGender, called, codec>>

Call(name, arg) == [op |-> name, arg |-> arg]

CodecIdle == [variant |-> NoVariant, wire |-> <<>>, decoded |-> NoVariant,
              encoded |-> FALSE, done |-> FALSE]

\* UserGenerator::new: a client, no builder yet and nothing returned yet
Init ==
    /\ pc = "idle"
    /\ builder = get
    /\ op = "none"
    /\ response = NoResponse
    /\ rsp = Unset
    /\ result = Unset
    /\ lastGender = None
    /\ called = Call("new", <<>>)
    /\ codec = CodecIdle

Get ==
    /\ pc \in {"idle", "done"}
    /\ pc' = "building"
    /\ builder' = get
    /\ lastGender' = None
    /\ called' = Call("get", <<>>)
    /\ op' = "none"
    /\ response' = NoResponse
    /\ rsp' = Unset
    /\ result' = Unset
    /\ UNCHANGED codec

CallGender(g) ==
    /\ pc = "building"
    /\ builder' = gender(builder, g)
    /\ lastGender' = g
    /\ called' = Call("gender", <<g>>)
    /\ UNCHANGED <<pc, op, response, rsp, result, codec>>

Filter(name, arg, next) ==
    /\ pc = "building"
    /\ Len(builder.req) < MaxParams
    /\ builder' = next
    /\ called' = Call(name, arg)
    /\ UNCHANGED <<pc, op, response, rsp, result, lastGender, codec>>

CallNationality(nat) == Filter("nationality", <<nat>>, nationality(builder, nat))
CallNationalities(list) == Filter("nationalities", list, nationalities(builder, list))
CallSeed(s) == Filter("seed", s, seed(builder, s))
CallPassword(charset) == Filter("password", charset, password(builder, charset))

\* a terminal operation up to its await: count, then the request is sent
Send(name, self, n) ==
    /\ pc' = "awaiting"
    /\ builder' = count(self, n)
    /\ op' = name
    /\ called' = Call(name, <<n>>)
    /\ response' = NoResponse
    /\ rsp' = Unset
    /\ result' = Unset
    /\ UNCHANGED codec

CallFetchWithInfo(n) ==
    pc = "building" /\ Send("fetch_with_info", builder, n) /\ UNCHANGED lastGender
CallFetch(n) ==
    pc = "building" /\ Send("fetch", builder, n) /\ UNCHANGED lastGender
CallFetchOne ==
    pc = "building" /\ Send("fetch_one", builder, 1) /\ UNCHANGED lastGender

\* UserGenerator::fetch_with_info, fetch, fetch_one: get(), then the same
GeneratorFetchWithInfo(n) ==
    pc \in {"idle", "done"} /\ Send("fetch_with_info", get, n) /\ lastGender' = None
GeneratorFetch(n) ==
    pc \in {"idle", "done"} /\ Send("fetch", get, n) /\ lastGender' = None
GeneratorFetchOne ==
    pc \in {"idle", "done"} /\ Send("fetch_one", get, 1) /\ lastGender' = None

\* the awaited send() returns and the terminal operation runs to its end; the
\* builder was moved into the call and is gone
Complete ==
    /\ pc = "awaiting"
    /\ \E r \in Responses :
          LET parsed == IF r.arrived THEN parse_response(r) ELSE Unset
              n == IF parsed.kind = "Result" /\ builder.gender = None
                   THEN Len(parsed.results) ELSE 0
          IN  \E random \in [1..n -> RandomGenders] :
                /\ response' = r
                /\ rsp' = parsed
                /\ result' = CASE op = "fetch_with_info" -> fetch_with_info(builder, r, random)
                               [] op = "fetch" -> fetch(builder, r, random)
                               [] op = "fetch_one" -> fetch_one(builder, r, random)
    /\ pc' = "done"
    /\ builder' = get
    /\ called' = Call("complete", <<>>)
    /\ UNCHANGED <<op, lastGender, codec>>

Next ==
    \/ Get
    \/ \E g \in GenderArgs : CallGender(g)
    \/ \E nat \in NatArgs : CallNationality(nat)
    \/ \E list \in NatListArgs : CallNationalities(list)
    \/ \E s \in SeedArgs : CallSeed(s)
    \/ \E charset \in PasswordArgs : CallPassword(charset)
    \/ \E n \in CountArgs : CallFetchWithInfo(n)
    \/ \E n \in CountArgs : CallFetch(n)
    \/ CallFetchOne
    \/ \E n \in CountArgs : GeneratorFetchWithInfo(n)
    \/ \E n \in CountArgs : GeneratorFetch(n)
    \/ GeneratorFetchOne
    \/ Complete

Spec == Init /\ [][Next]_vars

\* nationalities alone, on a fresh builder, over every list up to MaxNats
NextJoin ==
    \/ Get
    \/ \E list \in SeqsUpTo(Nationality, MaxNats) :
          builder.req = <<>> /\ CallNationalities(list)

SpecJoin == Init /\ [][NextJoin]_vars

\* Nationality through its derived Serialize and Deserialize
Encode(nat) ==
    /\ ~codec.encoded /\ codec.wire = <<>>
    /\ codec' = [codec EXCEPT !.variant = nat, !.wire = WireCode(nat), !.encoded = TRUE]
    /\ UNCHANGED <<pc, builder, op, response, rsp, result, lastGender, called>>

\* a wire string of the upstream's choosing
Receive(w) ==
    /\ ~codec.encoded /\ codec.wire = <<>>
    /\ codec' = [codec EXCEPT !.wire = w]
    /\ UNCHANGED <<pc, builder, op, response, rsp, result, lastGender, called>>

Decode ==
    /\ codec.wire # <<>> /\ ~codec.done
    /\ codec' = [codec EXCEPT !.decoded = FromWire(codec.wire), !.done = TRUE]
    /\ UNCHANGED <<pc, builder, op, response, rsp, result, lastGender, called>>

NextNat ==
    \/ \E nat \in Nationality : Encode(nat)
    \/ \E w \in WireStrings : Receive(w)
    \/ Decode

SpecNat == Init /\ [][NextNat]_vars

\* ---------------------------------------------------------------- properties
Returned == pc = "done"
SuccessKinds == { "Ok", "OkVec", "OkOne" }
ErrorKinds == { "Api", "BadFormat", "Reqwest" }
HeaderContains(r, piece) == r.ct.present /\ r.ct.readable /\ Contains(r.ct.value, piece)
IsSuccessBody(b) == b.kind = "object" /\ {"results", "info"} \subseteq b.keys
LastParam == builder.req[Len(builder.req)]
Commas(s) == Cardinality({ i \in 1..Len(s) : s[i] = "," })

\* a response the dispatch has no branch for: no header, or a header naming
\* neither type
NoKnownType(r) ==
    /\ r.arrived
    /\ \/ ~r.ct.present
       \/ ~HeaderContains(r, "text/plain") /\ ~HeaderContains(r, "application/json")

\* an application/json response whose body is valid JSON with no `results` key
JsonWithoutResults(r) ==
    /\ r.arrived /\ HeaderContains(r, "application/json") /\ ~HeaderContains(r, "text/plain")
    /\ r.bodyOk /\ r.body.kind # "raw" /\ "results" \notin r.body.keys

\* encoding, then decoding, gives the variant back
RoundTrip == codec.encoded /\ codec.done => codec.decoded = codec.variant

\* two record sequences that differ in the gender field at most
SameButGender(a, b) ==
    /\ Len(a) = Len(b)
    /\ \A i \in 1..Len(a) : [a[i] EXCEPT !.gender = b[i].gender] = b[i]

\* the parameter each filter adds
FilterParam ==
    [nationality |-> "nat", nationalities |-> "nat", seed |-> "seed", password |-> "password"]

\* one step of the builder, as C8 describes it
C8_Step ==
    LET old == builder.req
        new == builder'.req
        name == called'.op
    IN  /\ name = "gender" => new = old /\ builder'.gender = called'.arg[1]
        /\ name \in DOMAIN FilterParam
           => /\ Len(new) = Len(old) + 1
              /\ SubSeq(new, 1, Len(old)) = old
              /\ new[Len(new)][1] = FilterParam[name]
              /\ builder'.gender = builder.gender
        /\ name \in {"fetch_with_info", "fetch", "fetch_one"}
           => /\ Len(new) = Len(old) + 1
              /\ SubSeq(new, 1, Len(old)) = old
              /\ new[Len(new)][1] = "results"
              /\ name = "fetch_one" => new[Len(new)][2] = <<"1">>
              /\ Cardinality({ i \in 1..Len(new) : new[i][1] = "results" }) = 1
              /\ builder'.gender = builder.gender
        /\ \A i \in 1..Len(new) : new[i][1] # "gender"

\* C1: a response whose content-type contains text/plain never ends in a
\* success or a format error, and once its body text is read the terminal
\* operation returns the API error that carries exactly that text, whatever the
\* text is (a body that is valid success JSON included).
C1_TextPlainIsApiError ==
    Returned /\ response.arrived /\ HeaderContains(response, "text/plain")
    => /\ result.kind \notin SuccessKinds \cup {"BadFormat", "Panic"}
       /\ response.bodyOk => result = Api(response.body)

C1_Witness ==
    /\ Returned /\ op = "fetch_one"
    /\ HeaderContains(response, "text/plain") /\ HeaderContains(response, "application/json")
    /\ response.bodyOk /\ IsSuccessBody(response.body) /\ Len(response.body.results) = 1
    /\ result = Api(response.body)

\* C2: a response with no content-type header, or with one that contains
\* neither text/plain nor application/json, ends in a format error whatever the
\* body.
C2_AlwaysFormatError ==
    Returned /\ NoKnownType(response) => result = Err("BadFormat")

\* C2, amended: it is a format error when the header is absent or unreadable,
\* and when the body text is read; when reading the body of a response with a
\* readable header fails, the transport error is returned. Never a success and
\* never an API error.
C2_FormatErrorUnlessBodyFails ==
    Returned /\ NoKnownType(response)
    => result = IF response.ct.present /\ response.ct.readable /\ ~response.bodyOk
                THEN Err("Reqwest") ELSE Err("BadFormat")

C2_Witness ==
    /\ Returned /\ response.arrived /\ response.ct = Header(<<"text/html">>)
    /\ response.bodyOk /\ IsSuccessBody(response.body)
    /\ result = Err("BadFormat")

\* C3: an application/json response whose body is valid JSON without a
\* `results` key ends in a format error, the body {"error": "<message>"}
\* included.
C3_NoResultsIsFormatError ==
    Returned /\ JsonWithoutResults(response) => result = Err("BadFormat")

\* C3, amended: a JSON object without a `results` key ends in a format error,
\* except the object whose only key is `error` with a string value, which ends
\* in the API error carrying that string.
C3_NoResultsObject ==
    Returned /\ JsonWithoutResults(response) /\ response.body.kind = "object"
    => result = IF response.body.keys = {"error"} /\ response.body.error.type = "string"
                THEN Api(Raw(response.body.error.s)) ELSE Err("BadFormat")

C3_Witness ==
    /\ Returned /\ JsonWithoutResults(response)
    /\ response.body.keys = {"error", "info"} /\ response.body.error.type = "string"
    /\ result = Err("BadFormat")

\* C4: when gender was called on the chain, every record a successful terminal
\* operation returns has the gender of the last gender call, whatever gender
\* the upstream put in the record.
C4_GenderIsRequested ==
    Returned /\ lastGender # None /\ result.kind \in SuccessKinds
    => /\ \A i \in 1..Len(result.results) : result.results[i].gender = lastGender
       /\ result.kind = "OkOne" => result.user.gender = lastGender

C4_Witness ==
    /\ Returned /\ lastGender = "female" /\ result.kind = "Ok"
    /\ Len(result.results) = 2
    /\ rsp.results[1].gender = "male" /\ rsp.results[2].gender = "female"
    /\ result.results[1].gender = "female"

\* C5: for a list of one or more nationalities, nationalities adds one `nat`
\* parameter whose value is the wire codes in list order, a single comma
\* between neighbours, no comma first or last: len - 1 commas.
C5_JoinedCodes ==
    called.op = "nationalities" /\ Len(called.arg) >= 1
    => LET list == called.arg
           n == Len(list)
           v == LastParam[2]
       IN  /\ Len(builder.req) = 1
           /\ LastParam[1] = "nat"
           /\ Len(v) = 3 * n - 1
           /\ \A i \in 1..n : SubSeq(v, 3 * i - 2, 3 * i - 1) = WireCode(list[i])
           /\ \A i \in 1..(n - 1) : v[3 * i] = ","
           /\ Commas(v) = n - 1
           /\ v[1] # "," /\ v[Len(v)] # ","

C5_Witness ==
    /\ called.op = "nationalities"
    /\ called.arg = <<"Australian", "Brazilian">>
    /\ builder.req = << <<"nat", <<"A", "U", ",", "B", "R">>>> >>

\* C6: for the empty list, the `nat` parameter nationalities adds ends in a
\* comma.
C6_EmptyListTrailingComma ==
    called.op = "nationalities" /\ called.arg = <<>>
    => /\ Len(builder.req) = 1
       /\ LastParam[1] = "nat"
       /\ LastParam[2] # <<>>
       /\ LastParam[2][Len(LastParam[2])] = ","

\* C6, amended: for the empty list, nationalities adds a `nat` parameter whose
\* value is the empty string: there is no comma in it.
C6_EmptyListEmptyValue ==
    called.op = "nationalities" /\ called.arg = <<>>
    => /\ Len(builder.req) = 1
       /\ LastParam = <<"nat", <<>>>>

C6_Witness ==
    /\ called.op = "nationalities" /\ called.arg = <<>>
    /\ pc = "building" /\ Len(builder.req) = 1 /\ Commas(LastParam[2]) = 0

\* C7: fetch_one returns the single record of a batch of one, and on an empty
\* batch it returns a typed failure (it does not index out of range).
C7_FetchOneNeverPanics ==
    Returned /\ op = "fetch_one" /\ rsp.kind = "Result"
    => /\ Len(rsp.results) = 1
          => /\ result.kind = "OkOne"
             /\ [result.user EXCEPT !.gender = rsp.results[1].gender] = rsp.results[1]
       /\ rsp.results = <<>> => result.kind \in ErrorKinds

\* C8: every builder operation keeps the parameters added before it, in order;
\* a filter adds its one parameter and leaves the gender alone; gender changes
\* the gender and no parameter; a terminal operation adds exactly one `results`
\* parameter; no `gender` parameter is ever in the request.
C8_BuilderFrame == [][C8_Step]_vars

C8_Witness ==
    /\ pc = "awaiting" /\ op = "fetch" /\ builder.gender = "male"
    /\ Len(builder.req) = 3
    /\ builder.req[1] = <<"nat", <<"B", "R", ",", "U", "S">>>>
    /\ builder.req[2][1] = "seed"
    /\ builder.req[3] = <<"results", <<"2">>>>

\* C9: Nationality has exactly twenty variants, each with one wire string of
\* its own, and encoding then decoding gives the variant back.
C9_TwentyVariants ==
    codec.encoded /\ codec.done
    => Cardinality(Nationality) = 20 /\ codec.decoded = codec.variant

\* C9, amended: Nationality has exactly twenty-one variants, each with one wire
\* string of its own; decoding gives a variant of the set or fails, and
\* encoding then decoding gives the variant back.
C9_TwentyOneVariants ==
    /\ Cardinality(Nationality) = 21 /\ Len(NationalityOrder) = 21
    /\ \A a, b \in Nationality : WireCode(a) = WireCode(b) => a = b
    /\ RoundTrip
    /\ codec.done => \/ codec.decoded = NoVariant
                     \/ codec.decoded \in Nationality /\ WireCode(codec.decoded) = codec.wire

C9_Witness ==
    /\ codec.encoded /\ codec.done
    /\ codec.variant = "Iranian" /\ codec.wire = <<"I", "R">> /\ codec.decoded = "Iranian"

\* C10: after a successful parse, fetch_with_info returns as many records as
\* were parsed, in the same order, each equal to the parsed one in every field
\* but gender, with the parsed info; fetch returns that record sequence; no
\* successful parse ends in an error.
C10_OnlyGenderChanges ==
    Returned /\ rsp.kind = "Result"
    => /\ result.kind \notin ErrorKinds
       /\ op = "fetch_with_info"
          => /\ result.kind = "Ok"
             /\ SameButGender(result.results, rsp.results)
             /\ result.info = rsp.info
       /\ op = "fetch"
          => /\ result.kind = "OkVec"
             /\ SameButGender(result.results, rsp.results)

C10_Witness ==
    /\ Returned /\ op = "fetch_with_info" /\ rsp.kind = "Result"
    /\ Len(rsp.results) = 2 /\ result.kind = "Ok"
    /\ result.results[1].gender # rsp.results[1].gender
    /\ result.results[2].email = rsp.results[2].email
    /\ result.info.seed = "xyz"
====
